---- MODULE Spec2Model ----
(***************************************************************************)
(* Label log and distribution engine of the labeler server.                *)
(*                                                                         *)
(* The model follows LabelerServer (createLabels / createLabel / saveLabel *)
(* / emitLabel, subscribeLabelsHandler, addSubscription,                   *)
(* removeSubscription) and DefaultDbProvider (saveLabel,                   *)
(* isCursorInTheFuture, iterateLabels).  Every `await` of the source is a  *)
(* point where another call or another socket's handler may run; the code  *)
(* between two awaits is one atomic action.                                *)
(***************************************************************************)
EXTENDS Integers, Sequences, FiniteSets, TLC

\* ------------------------------------------------------------------ bounds
MaxBatch == 3     \* most values (create plus negate) of one createLabels call
MaxCursor == 1    \* largest cursor a subscriber connects with
MaxRows == 2      \* most records of the table a search runs on
MaxPatterns == 2  \* most uriPatterns of a search

Writers == {"w1", "w2"}         \* concurrent callers of createLabels
Handles == {"h1", "h2"}         \* WebSocket connections (WSContext)
Vals == {"spam", "porn"}        \* label values

\* ------------------------------------------------------------------ values
Undefined == "undefined"        \* a JavaScript undefined / null string field
Null == "NULL"                  \* an SQL NULL column

NumCursor(n) == [nan |-> FALSE, n |-> n]
NaN == [nan |-> TRUE, n |-> 0]
Cursors == {NaN} \cup {NumCursor(n) : n \in -1..MaxCursor}

\* an object without keys, and the objects with at most the key k, its value from S
EmptyObj == [k \in {} |-> Undefined]
Fields(k, S) == {EmptyObj} \cup {(k :> v) : v \in S}

\* the $type values emitEventHandler tells apart
ModEventLabel == "tools.ozone.moderation.defs#modEventLabel"
RepoRef == "com.atproto.admin.defs#repoRef"
StrongRef == "com.atproto.repo.strongRef"

\* bearer tokens, by what verifyJwt makes of them: the issuer, or a failure
Tokens == {[ok |-> TRUE, iss |-> "did:labeler"], [ok |-> TRUE, iss |-> "did:other"],
           [ok |-> FALSE, iss |-> "did:labeler"]}
\* the Authorization header: absent, another scheme, "Bearer" without a token, "Bearer t"
Headers == {EmptyObj, [type |-> "Basic"], [type |-> "Bearer"]}
               \cup {[type |-> "Bearer", token |-> t] : t \in Tokens}

\* the event, subject and createdBy of a request body; a key may be absent
ValLists == {<<>>, <<"spam">>}
Events == {t @@ c @@ n : t \in {("type" :> ModEventLabel), ("type" :> "other")},
                         c \in Fields("createLabelVals", ValLists),
                         n \in Fields("negateLabelVals", ValLists)}
EventSubjects == {[type |-> RepoRef, did |-> "did:a"], [type |-> RepoRef],
                  [type |-> StrongRef, uri |-> "at://x", cid |-> "c1"],
                  [type |-> StrongRef, cid |-> "c1"],
                  [type |-> "other", uri |-> "at://x"]}
Bodies == {e @@ s @@ c : e \in Fields("event", Events), s \in Fields("subject", EventSubjects),
                         c \in Fields("createdBy", {"did:mod"})}
Requests == [header : Headers, body : Bodies]
NoRequest == [header |-> EmptyObj, body |-> EmptyObj, none |-> TRUE]
NoArg == [none |-> TRUE]

RecordSubject == [uri |-> "at://x", cid |-> "c1"]      \* a strongRef subject
DidSubject == [uri |-> "did:a", cid |-> Undefined]     \* a repoRef subject
Subjects == {RecordSubject, DidSubject}

SeqsUpTo(S, n) == UNION {[1..k -> S] : k \in 0..n}
Batches == {b \in [create : SeqsUpTo(Vals, MaxBatch), negate : SeqsUpTo(Vals, MaxBatch)] :
               Len(b.create) + Len(b.negate) <= MaxBatch}
SingleBatches == {[create |-> <<"spam">>, negate |-> <<>>]}    \* createLabel of one value

VARIABLES
    labels,           \* the labels table, rows in insertion order
    sqlite_sequence,  \* AUTOINCREMENT: the largest rowid ever assigned
    owner,            \* history: owner[id] is the call that inserted row id
    connections,      \* connections.get("com.atproto.label.subscribeLabels"), insertion order
    wpc,              \* per call: "idle", "call", "await", "done", "failed"
    wsubject,         \* per call: the subject argument of createLabels
    wlabels,          \* per call: the labels argument of createLabels
    widx,             \* per call: position in create \o negate of the value in hand
    wid,              \* per call: the id db.saveLabel returned
    createdLabels,    \* per call: the array createLabels accumulates
    wreq,             \* per call: the emitEvent request it serves, or NoRequest
    wresp,            \* per call: the outcome of emitEventHandler, "none" until it ends
    hpc,              \* per socket: "new", "checking", "scan", "live", "rejected", "errored"
    cursor,           \* per socket: the parsed cursor query parameter
    future,           \* per socket: what isCursorInTheFuture returned
    ahead,            \* history: per socket, the cursor was above every id of the
                      \* table (above 0 for an empty table) when the socket connected
    fetched,          \* per socket: <<row>> the iterator produced, or <<>> when done
    openMax,          \* per socket: largest id in the table when the scan was opened
    frames,           \* per socket: the frames handed to ws.send, in order
    closed,           \* per socket: the close event has fired (onClose ran)
    arg,              \* the argument of a direct call of saveLabel or searchLabels, or NoArg
    res               \* the results of the direct calls made, in order

dbvars == <<labels, sqlite_sequence, owner>>
wvars == <<wpc, wsubject, wlabels, widx, wid, createdLabels>>
evars == <<wreq, wresp>>
pvars == <<arg, res>>
hvars == <<hpc, cursor, future, ahead, fetched, openMax, frames, closed>>
vars == <<labels, sqlite_sequence, owner, connections, wpc, wsubject, wlabels, widx,
          wid, createdLabels, wreq, wresp, hpc, cursor, future, ahead, fetched, openMax,
          frames, closed, arg, res>>

\* ------------------------------------------------------------------ helpers
Max(S) == CHOOSE x \in S : \A y \in S : y <= x
Range(s) == {s[i] : i \in 1..Len(s)}

\* LabelerServer.did, the default src of a label
did == "did:labeler"
\* new Date().toISOString()
now == "cts"

\* excludeNullish: drop the keys whose value is null or undefined
excludeNullish(obj) ==
    LET keep == {k \in DOMAIN obj : k = "neg" \/ obj[k] # Undefined}
    IN [k \in keep |-> obj[k]]

\* labelIsSigned: the label carries a sig
labelIsSigned(label) == "sig" \in DOMAIN label

\* the optional field k of a label, Undefined when the key is absent
Field(label, k) == IF k \in DOMAIN label THEN label[k] ELSE Undefined
IsNeg(label) == IF "neg" \in DOMAIN label THEN label.neg ELSE FALSE

\* signLabel: attach a signature over the unsigned fields
signLabel(label) ==
    [k \in DOMAIN label \cup {"sig"} |->
        IF k = "sig"
        THEN <<"sig", label.src, label.uri, Field(label, "cid"), label.val,
               IsNeg(label), label.cts>>
        ELSE label[k]]

\* createLabel: the label handed to saveLabel
CreateLabelData(data) ==
    excludeNullish([k \in DOMAIN data \cup {"src", "cts"} |->
        IF k = "src" THEN (IF "src" \in DOMAIN data /\ data.src # Undefined
                           THEN data.src ELSE did)
        ELSE IF k = "cts" THEN (IF "cts" \in DOMAIN data /\ data.cts # Undefined
                                THEN data.cts ELSE now)
        ELSE data[k]])

\* (a variant that signs whatever it is given)
SignedAgain(label) == signLabel(label)

\* LabelerServer.saveLabel, line 115
Signed(label) == IF labelIsSigned(label) THEN label ELSE signLabel(label)

\* ------------------------------------------------------------------ DefaultDbProvider
MaxRowid == IF Len(labels) = 0 THEN 0 ELSE Max({labels[i].id : i \in 1..Len(labels)})

\* the rowid an AUTOINCREMENT insert assigns
\* (a variant that hands out the largest rowid again)
NextRowidReused == IF MaxRowid > sqlite_sequence THEN MaxRowid ELSE sqlite_sequence
NextRowid == (IF MaxRowid > sqlite_sequence THEN MaxRowid ELSE sqlite_sequence) + 1

\* the row INSERT INTO labels writes for a signed label
Row(id, label) ==
    [id |-> id, src |-> label.src, uri |-> label.uri,
     cid |-> IF Field(label, "cid") = Undefined THEN Null ELSE label.cid,
     val |-> label.val, neg |-> IF IsNeg(label) THEN 1 ELSE 0,
     cts |-> label.cts, exp |-> Null, sig |-> label.sig]

\* (a variant in which a comparison with the null of an empty table is false)
isCursorInTheFutureNullMax(c) == ~c.nan /\ Len(labels) > 0 /\ c.n > MaxRowid

\* (a variant that compares with >=)
isCursorInTheFutureInclusive(c) ==
    LET latest == IF Len(labels) = 0 THEN 0 ELSE MaxRowid
    IN ~c.nan /\ c.n >= latest

\* SELECT MAX(id) AS id FROM labels; cursor > latest.id, where null compares as 0
\* and NaN compares false
isCursorInTheFuture(c) ==
    LET latest == IF Len(labels) = 0 THEN 0 ELSE MaxRowid
    IN ~c.nan /\ c.n > latest

\* (a variant whose WHERE clause is id >= ?)
IterNextInclusive(c, pos, hi) ==
    LET cand == {i \in 1..Len(labels) : ~c.nan /\ labels[i].id >= pos}
    IN IF cand = {} THEN {<<>>}
       ELSE LET r == labels[CHOOSE i \in cand : \A j \in cand : labels[i].id <= labels[j].id]
            IN IF r.id <= hi THEN {<<r>>} ELSE {<<r>>, <<>>}

\* one step of the iterator of SELECT * FROM labels WHERE id > ? ORDER BY id ASC:
\* the possible results after the row with id pos (for the first step, the cursor).
\* A row inserted after the statement started may or may not be seen.
IterNext(c, pos, hi) ==
    LET cand == {i \in 1..Len(labels) : ~c.nan /\ labels[i].id > pos}
    IN IF cand = {} THEN {<<>>}
       ELSE LET r == labels[CHOOSE i \in cand : \A j \in cand : labels[i].id <= labels[j].id]
            IN IF r.id <= hi THEN {<<r>>} ELSE {<<r>>, <<>>}

\* ------------------------------------------------------------------ frames
\* frameToBytes("message", {seq, labels: [formatLabel(label)]}, "#labels");
\* via records which path sent it
MessageFrame(seq, via) == [op |-> "message", t |-> "#labels", seq |-> seq, via |-> via]
ErrorFrame(error) == [op |-> "error", error |-> error]

IsMessage(f) == f.op = "message"
SeqsOf(h) == {frames[h][i].seq : i \in {j \in 1..Len(frames[h]) : IsMessage(frames[h][j])}}

\* a server that is serving no call and no socket
Fresh ==
    /\ owner = [i \in {} |-> 0]
    /\ connections = <<>>
    /\ wpc = [w \in Writers |-> "idle"]
    /\ wsubject = [w \in Writers |-> [uri |-> Undefined, cid |-> Undefined]]
    /\ wlabels = [w \in Writers |-> [create |-> <<>>, negate |-> <<>>]]
    /\ widx = [w \in Writers |-> 0]
    /\ wid = [w \in Writers |-> 0]
    /\ createdLabels = [w \in Writers |-> <<>>]
    /\ wreq = [w \in Writers |-> NoRequest]
    /\ wresp = [w \in Writers |-> "none"]
    /\ hpc = [h \in Handles |-> "new"]
    /\ cursor = [h \in Handles |-> NaN]
    /\ future = [h \in Handles |-> FALSE]
    /\ ahead = [h \in Handles |-> FALSE]
    /\ fetched = [h \in Handles |-> <<>>]
    /\ openMax = [h \in Handles |-> 0]
    /\ frames = [h \in Handles |-> <<>>]
    /\ closed = [h \in Handles |-> FALSE]

Init ==
    /\ Fresh
    /\ labels = <<>>
    /\ sqlite_sequence = 0
    /\ arg = NoArg
    /\ res = <<>>

\* ------------------------------------------------------------------ createLabels
\* the values of a batch in call order: the create list, then the negate list
BatchVals(w) == wlabels[w].create \o wlabels[w].negate

\* (a variant in which the negate loop passes no neg)
CreateLabelArgNoNeg(w, i) ==
    [uri |-> wsubject[w].uri, cid |-> wsubject[w].cid, val |-> BatchVals(w)[i]]

\* the argument of the createLabel call for position i of the batch (lines 154, 160)
CreateLabelArg(w, i) ==
    IF i <= Len(wlabels[w].create)
    THEN [uri |-> wsubject[w].uri, cid |-> wsubject[w].cid, val |-> BatchVals(w)[i]]
    ELSE [uri |-> wsubject[w].uri, cid |-> wsubject[w].cid, val |-> BatchVals(w)[i],
          neg |-> TRUE]

\* the signed label saveLabel hands to db.saveLabel and to emitLabel
SignedOf(w) == Signed(CreateLabelData(CreateLabelArg(w, widx[w])))

\* { id, ...signed }
SavedLabel(id, signed) ==
    [k \in DOMAIN signed \cup {"id"} |-> IF k = "id" THEN id ELSE signed[k]]

\* createLabels is called: up to the first db.saveLabel, or the return of []
createLabels(w, subject, lbls) ==
    /\ wpc[w] = "idle"
    /\ wsubject' = [wsubject EXCEPT ![w] = subject]
    /\ wlabels' = [wlabels EXCEPT ![w] = lbls]
    /\ IF Len(lbls.create) + Len(lbls.negate) = 0
       THEN wpc' = [wpc EXCEPT ![w] = "done"] /\ widx' = widx
       ELSE wpc' = [wpc EXCEPT ![w] = "call"] /\ widx' = [widx EXCEPT ![w] = 1]
    /\ UNCHANGED <<pvars, evars, dbvars, connections, wid, createdLabels, hvars>>

\* (a variant that replaces an earlier row of the same uri and val instead of adding one)
dbSaveLabelReplace(w) ==
    /\ wpc[w] = "call"
    /\ LET id == NextRowid
           row == Row(id, SignedOf(w))
       IN /\ labels' = Append(SelectSeq(labels, LAMBDA r : ~(r.uri = row.uri /\ r.val = row.val)),
                              row)
          /\ sqlite_sequence' = id
          /\ owner' = owner @@ (id :> <<w, widx[w]>>)
          /\ wid' = [wid EXCEPT ![w] = id]
    /\ wpc' = [wpc EXCEPT ![w] = "await"]
    /\ UNCHANGED <<pvars, evars, connections, wsubject, wlabels, widx, createdLabels, hvars>>

\* db.saveLabel inserts the row and returns lastInsertRowid
dbSaveLabel(w) ==
    /\ wpc[w] = "call"
    /\ LET id == NextRowid
       IN /\ labels' = Append(labels, Row(id, SignedOf(w)))
          /\ sqlite_sequence' = id
          /\ owner' = owner @@ (id :> <<w, widx[w]>>)
          /\ wid' = [wid EXCEPT ![w] = id]
    /\ wpc' = [wpc EXCEPT ![w] = "await"]
    /\ UNCHANGED <<pvars, evars, connections, wsubject, wlabels, widx, createdLabels, hvars>>

\* (a variant in which a failed insert also removes the rows the call inserted before)
dbSaveLabelThrowsRollback(w) ==
    /\ wpc[w] = "call"
    /\ wpc' = [wpc EXCEPT ![w] = "failed"]
    /\ labels' = SelectSeq(labels, LAMBDA r : owner[r.id][1] # w)
    /\ UNCHANGED <<pvars, evars, sqlite_sequence, owner, connections, wsubject, wlabels, widx, wid,
                   createdLabels, hvars>>

\* (a variant in which a failed insert is still published, under the id it would have had)
dbSaveLabelThrowsPublishes(w) ==
    /\ wpc[w] = "call"
    /\ wpc' = [wpc EXCEPT ![w] = "failed"]
    /\ frames' = [h \in Handles |->
                    IF h \in Range(connections)
                    THEN Append(frames[h], MessageFrame(NextRowid, "live")) ELSE frames[h]]
    /\ UNCHANGED <<pvars, evars, dbvars, connections, wsubject, wlabels, widx, wid, createdLabels, hpc,
                   cursor, future, ahead, fetched, openMax, closed>>

\* db.saveLabel throws: nothing is inserted, and createLabel and createLabels reject
dbSaveLabelThrows(w) ==
    /\ wpc[w] = "call"
    /\ wpc' = [wpc EXCEPT ![w] = "failed"]
    /\ UNCHANGED <<pvars, evars, dbvars, connections, wsubject, wlabels, widx, wid, createdLabels, hvars>>

\* the frames after ws.send(bytes) on the first n sockets of the registry
SendTo(n, f) ==
    [h \in Handles |->
        IF \E i \in 1..n : connections[i] = h THEN Append(frames[h], f) ELSE frames[h]]

\* the continuation of saveLabel: emitLabel sends to every registered socket, the
\* saved label is returned and pushed, and the loop goes on to the next value
emitLabel(w) ==
    /\ wpc[w] = "await"
    /\ frames' = SendTo(Len(connections), MessageFrame(wid[w], "live"))
    /\ createdLabels' =
         [createdLabels EXCEPT ![w] = Append(@, SavedLabel(wid[w], SignedOf(w)))]
    /\ IF widx[w] < Len(BatchVals(w))
       THEN wpc' = [wpc EXCEPT ![w] = "call"] /\ widx' = [widx EXCEPT ![w] = @ + 1]
       ELSE wpc' = [wpc EXCEPT ![w] = "done"] /\ widx' = widx
    /\ UNCHANGED <<pvars, evars, dbvars, connections, wsubject, wlabels, wid, hpc, cursor, future,
                   ahead, fetched, openMax, closed>>

\* ws.send throws on the k-th socket of the forEach: the sockets before it have the
\* frame, the ones after it do not, and saveLabel rejects
emitLabelThrows(w, k) ==
    /\ wpc[w] = "await"
    /\ k \in 1..Len(connections)
    /\ frames' = SendTo(k - 1, MessageFrame(wid[w], "live"))
    /\ wpc' = [wpc EXCEPT ![w] = "failed"]
    /\ UNCHANGED <<pvars, evars, dbvars, connections, wsubject, wlabels, widx, wid, createdLabels, hpc,
                   cursor, future, ahead, fetched, openMax, closed>>

\* ------------------------------------------------------------------ emitEvent
\* verifyJwt: the payload of a token that verifies, or a failure
verifyJwt(token) ==
    IF token.ok THEN [error |-> "none", iss |-> token.iss]
    ELSE [error |-> "AuthRequired", iss |-> Undefined]

\* parseAuthHeaderDid: the issuer of the bearer token, or the error thrown
parseAuthHeaderDid(header) ==
    IF "type" \notin DOMAIN header THEN [error |-> "AuthRequired", iss |-> Undefined]
    ELSE IF header.type # "Bearer" \/ "token" \notin DOMAIN header
         THEN [error |-> "MissingJwt", iss |-> Undefined]
    ELSE verifyJwt(header.token)

\* (a variant that authorizes every caller)
authAny(actorDid) == actorDid = actorDid

\* the default of options.auth
auth(actorDid) == actorDid = did

\* the list under key k of an event; createLabels takes an absent list as empty
ListOf(event, k) == IF k \in DOMAIN event THEN event[k] ELSE <<>>

\* (a variant that takes the uri of a subject of any $type)
subjectUriAny(subject) ==
    IF subject.type = RepoRef THEN Field(subject, "did") ELSE Field(subject, "uri")

\* the uri and the cid emitEventHandler resolves from the subject; Undefined for the
\* null and undefined of the source
subjectUri(subject) ==
    IF subject.type = RepoRef THEN Field(subject, "did")
    ELSE IF subject.type = StrongRef THEN Field(subject, "uri")
    ELSE Undefined
subjectCid(subject) == IF subject.type = StrongRef THEN Field(subject, "cid") ELSE Undefined

\* the kind of the error emitEventHandler throws before it calls createLabels, in the
\* order of its checks, or "none"
emitEventCheck(req) ==
    LET a == parseAuthHeaderDid(req.header)
        b == req.body
    IN IF a.error # "none" THEN a.error
       ELSE IF ~auth(a.iss) THEN "AuthRequired"
       ELSE IF "event" \notin DOMAIN b \/ "subject" \notin DOMAIN b \/ "createdBy" \notin DOMAIN b
            THEN "InvalidRequest"
       ELSE IF b.event.type # ModEventLabel THEN "InvalidRequest"
       ELSE IF Len(ListOf(b.event, "createLabelVals")) = 0
                  /\ Len(ListOf(b.event, "negateLabelVals")) = 0
            THEN "InvalidRequest"
       ELSE IF subjectUri(b.subject) = Undefined THEN "InvalidRequest"
       ELSE "none"

\* a request arrives: the checks, and for an event that passes them createLabels up
\* to its first db.saveLabel
emitEventHandler(w, req) ==
    /\ wpc[w] = "idle"
    /\ wreq[w] = NoRequest
    /\ wreq' = [wreq EXCEPT ![w] = req]
    /\ IF emitEventCheck(req) # "none"
       THEN /\ wresp' = [wresp EXCEPT ![w] = emitEventCheck(req)]
            /\ wpc' = [wpc EXCEPT ![w] = "rejected"]
            /\ UNCHANGED <<pvars, wsubject, wlabels, widx>>
       ELSE /\ wresp' = wresp
            /\ wsubject' = [wsubject EXCEPT ![w] = [uri |-> subjectUri(req.body.subject),
                                                    cid |-> subjectCid(req.body.subject)]]
            /\ wlabels' = [wlabels EXCEPT ![w] =
                              [create |-> ListOf(req.body.event, "createLabelVals"),
                               negate |-> ListOf(req.body.event, "negateLabelVals")]]
            /\ wpc' = [wpc EXCEPT ![w] = "call"]
            /\ widx' = [widx EXCEPT ![w] = 1]
    /\ UNCHANGED <<pvars, dbvars, connections, wid, createdLabels, hvars>>

\* createLabels has returned or rejected: the response with labels[0].id, or the error
emitEventRespond(w) ==
    /\ wreq[w] # NoRequest
    /\ wresp[w] = "none"
    /\ wpc[w] \in {"done", "failed"}
    /\ wresp' = [wresp EXCEPT ![w] =
                    IF wpc[w] = "failed" \/ Len(createdLabels[w]) = 0
                           \/ createdLabels[w][1].id = 0
                    THEN "Error" ELSE "ok"]
    /\ UNCHANGED <<pvars, dbvars, connections, wvars, wreq, hvars>>

\* ------------------------------------------------------------------ subscribeLabels
\* addSubscription: subs.add(ws)
addSubscription(subs, ws) == IF ws \in Range(subs) THEN subs ELSE Append(subs, ws)

\* removeSubscription: subs.delete(ws)
removeSubscription(subs, ws) == SelectSeq(subs, LAMBDA x : x # ws)

\* the socket opens: the cursor is parsed and onOpen calls isCursorInTheFuture
subscribeLabelsHandler(h, c) ==
    /\ hpc[h] = "new"
    /\ cursor' = [cursor EXCEPT ![h] = c]
    /\ future' = [future EXCEPT ![h] = isCursorInTheFuture(c)]
    /\ ahead' = [ahead EXCEPT ![h] =
                    ~c.nan /\ c.n > 0 /\ \A i \in 1..Len(labels) : c.n > labels[i].id]
    /\ hpc' = [hpc EXCEPT ![h] = "checking"]
    /\ UNCHANGED <<pvars, evars, dbvars, connections, wvars, fetched, openMax, frames, closed>>

\* the cursor is in the future: the error frame, ws.close(), return
onOpenFutureCursor(h) ==
    /\ hpc[h] = "checking"
    /\ future[h]
    /\ frames' = [frames EXCEPT ![h] = Append(@, ErrorFrame("FutureCursor"))]
    /\ hpc' = [hpc EXCEPT ![h] = "rejected"]
    /\ UNCHANGED <<pvars, evars, dbvars, connections, wvars, cursor, future, ahead, fetched, openMax, closed>>

\* the cursor is not in the future: iterateLabels(cursor) starts and produces its
\* first result
onOpenIterate(h) ==
    /\ hpc[h] = "checking"
    /\ ~future[h]
    /\ openMax' = [openMax EXCEPT ![h] = MaxRowid]
    /\ \E r \in IterNext(cursor[h], cursor[h].n, MaxRowid) :
          fetched' = [fetched EXCEPT ![h] = r]
    /\ hpc' = [hpc EXCEPT ![h] = "scan"]
    /\ UNCHANGED <<pvars, evars, dbvars, connections, wvars, cursor, future, ahead, frames, closed>>

\* (a variant that reads on from the cursor instead of from the row just sent)
onOpenSendRestart(h) ==
    /\ hpc[h] = "scan"
    /\ fetched[h] # <<>>
    /\ Len(frames[h]) < 3
    /\ frames' = [frames EXCEPT ![h] = Append(@, MessageFrame(fetched[h][1].id, "catchup"))]
    /\ \E r \in IterNext(cursor[h], cursor[h].n, openMax[h]) :
          fetched' = [fetched EXCEPT ![h] = r]
    /\ UNCHANGED <<pvars, evars, dbvars, connections, wvars, hpc, cursor, future, ahead, openMax, closed>>

\* the loop body: the fetched row is sent, and the iterator produces its next result
onOpenSend(h) ==
    /\ hpc[h] = "scan"
    /\ fetched[h] # <<>>
    /\ frames' = [frames EXCEPT ![h] = Append(@, MessageFrame(fetched[h][1].id, "catchup"))]
    /\ \E r \in IterNext(cursor[h], fetched[h][1].id, openMax[h]) :
          fetched' = [fetched EXCEPT ![h] = r]
    /\ UNCHANGED <<pvars, evars, dbvars, connections, wvars, hpc, cursor, future, ahead, openMax, closed>>

\* (a variant whose catch block does not return: the socket is registered all the same)
onOpenCatchFallsThrough(h) ==
    /\ hpc[h] = "scan"
    /\ frames' = [frames EXCEPT ![h] = Append(@, ErrorFrame("InternalServerError"))]
    /\ connections' = IF h \in Range(connections) THEN connections ELSE Append(connections, h)
    /\ hpc' = [hpc EXCEPT ![h] = "errored"]
    /\ UNCHANGED <<pvars, evars, dbvars, wvars, cursor, future, ahead, fetched, openMax, closed>>

\* the try block throws (the iterator's read, frameToBytes or ws.send): the catch
\* block sends the error frame, closes and returns
onOpenCatch(h) ==
    /\ hpc[h] = "scan"
    /\ frames' = [frames EXCEPT ![h] = Append(@, ErrorFrame("InternalServerError"))]
    /\ hpc' = [hpc EXCEPT ![h] = "errored"]
    /\ UNCHANGED <<pvars, evars, dbvars, connections, wvars, cursor, future, ahead, fetched, openMax, closed>>

\* the iterator is done: addSubscription
onOpenAddSubscription(h) ==
    /\ hpc[h] = "scan"
    /\ fetched[h] = <<>>
    /\ connections' = addSubscription(connections, h)
    /\ hpc' = [hpc EXCEPT ![h] = "live"]
    /\ UNCHANGED <<pvars, evars, dbvars, wvars, cursor, future, ahead, fetched, openMax, frames, closed>>

\* the close event of an opened socket: removeSubscription
onClose(h) ==
    /\ hpc[h] # "new"
    /\ ~closed[h]
    /\ closed' = [closed EXCEPT ![h] = TRUE]
    /\ connections' = removeSubscription(connections, h)
    /\ UNCHANGED <<pvars, evars, dbvars, wvars, hpc, cursor, future, ahead, fetched, openMax, frames>>

\* ------------------------------------------------------------------ specifications
\* the steps of the createLabels calls of the callers W
CallSteps(W) ==
    \/ \E w \in W : dbSaveLabel(w)
    \/ \E w \in W : emitLabel(w)

\* the steps of onOpen for the sockets H that are not rejected
ScanSteps(H) ==
    \/ \E h \in H : onOpenIterate(h)
    \/ \E h \in H : onOpenSend(h)
    \/ \E h \in H : onOpenAddSubscription(h)

\* an insert or a send of a createLabels call throws
CallFaults(W, H) ==
    \/ \E w \in W : dbSaveLabelThrows(w)
    \/ \E w \in W, k \in 1..Cardinality(H) : emitLabelThrows(w, k)

\* concurrent createLabel calls and subscribers, with failures
Next ==
    \/ \E w \in Writers, b \in SingleBatches : createLabels(w, DidSubject, b)
    \/ \E h \in Handles, c \in Cursors : subscribeLabelsHandler(h, c)
    \/ CallSteps(Writers)
    \/ \E h \in Handles : onOpenFutureCursor(h)
    \/ ScanSteps(Handles)
    \/ \E h \in Handles : onClose(h)
    \/ CallFaults(Writers, Handles)
    \/ \E h \in Handles : onOpenCatch(h)

Spec == Init /\ [][Next]_vars

\* the same calls and subscribers when no read, insert or send fails
NextReliable ==
    \/ \E w \in Writers, b \in SingleBatches : createLabels(w, DidSubject, b)
    \/ \E h \in Handles, c \in Cursors : subscribeLabelsHandler(h, c)
    \/ CallSteps(Writers)
    \/ \E h \in Handles : onOpenFutureCursor(h)
    \/ ScanSteps(Handles)
    \/ \E h \in Handles : onClose(h)

SpecReliable == Init /\ [][NextReliable]_vars

\* one createLabels call with an arbitrary batch, next to a concurrent createLabel
\* call and a subscriber without a cursor
NextBatch ==
    \/ \E s \in Subjects, b \in Batches : createLabels("w1", s, b)
    \/ \E b \in SingleBatches : createLabels("w2", DidSubject, b)
    \/ subscribeLabelsHandler("h1", NaN)
    \/ CallSteps(Writers)
    \/ onOpenIterate("h1")
    \/ onOpenAddSubscription("h1")
    \/ CallFaults(Writers, {"h1"})

SpecBatch == Init /\ [][NextBatch]_vars

\* one emitEvent request, next to a concurrent createLabel call and a subscriber
\* without a cursor
NextEvent ==
    \/ \E req \in Requests : emitEventHandler("w1", req)
    \/ emitEventRespond("w1")
    \/ \E b \in SingleBatches : createLabels("w2", DidSubject, b)
    \/ subscribeLabelsHandler("h1", NaN)
    \/ CallSteps(Writers)
    \/ onOpenIterate("h1")
    \/ onOpenAddSubscription("h1")
    \/ CallFaults(Writers, {"h1"})

SpecEvent == Init /\ [][NextEvent]_vars

\* ------------------------------------------------------------------ signing
\* the labels saveLabel may be given: built by createLabel, and either unsigned,
\* signed by this server, or carrying a signature made elsewhere
CreateDatas ==
    {[uri |-> u, val |-> v, cid |-> c, src |-> sr] @@ n :
        u \in {"at://x", "did:a"}, v \in Vals, c \in {Undefined, "c1"},
        sr \in {Undefined, "did:other"}, n \in Fields("neg", BOOLEAN)}
ForeignSig == <<"sig", "foreign">>
SaveLabelArgs ==
    LET unsigned == {CreateLabelData(d) : d \in CreateDatas}
    IN unsigned \cup {signLabel(l) : l \in unsigned}
                \cup {l @@ ("sig" :> ForeignSig) : l \in unsigned}

InitSign ==
    /\ Fresh
    /\ labels = <<>>
    /\ sqlite_sequence = 0
    /\ arg \in SaveLabelArgs
    /\ res = <<>>

\* line 115 of saveLabel, applied to the argument and then to its own result
saveLabelSigned ==
    /\ Len(res) < 2
    /\ res' = Append(res, Signed(IF res = <<>> THEN arg ELSE res[Len(res)]))
    /\ UNCHANGED <<dbvars, connections, wvars, evars, hvars, arg>>

NextSign == saveLabelSigned

SpecSign == InitSign /\ [][NextSign]_vars

\* ------------------------------------------------------------------ searchLabels
\* strings of a search are sequences of characters
SearchUris == {<<"a">>, <<"a", "b">>, <<"b">>}
UriPatterns == {<<"*">>, <<"a">>, <<"a", "*">>, <<"b">>, <<"a", "*", "b", "*">>}
SearchSources == {"did:labeler", "did:other"}

\* the tables of up to MaxRows records, ids 1, 2, ... as saveLabel assigns them
TableRow(id, uri, src) ==
    Row(id, Signed(CreateLabelData([uri |-> uri, val |-> "spam", src |-> src])))
Tables ==
    UNION {{[i \in 1..n |-> TableRow(i, t[i][1], t[i][2])] :
               t \in [1..n -> SearchUris \X SearchSources]} : n \in 0..MaxRows}
SearchArgs ==
    [cursor : 0..MaxCursor, limit : 1..MaxRows,
     uriPatterns : SeqsUpTo(UriPatterns, MaxPatterns),
     sources : SeqsUpTo(SearchSources, 1)]

RECURSIVE Escaped(_)
\* pattern.replaceAll(/%/g, "").replaceAll(/_/g, "\\_")
Escaped(p) ==
    IF p = <<>> THEN <<>>
    ELSE IF Head(p) = "%" THEN Escaped(Tail(p))
    ELSE IF Head(p) = "_" THEN <<"\\", "_">> \o Escaped(Tail(p))
    ELSE <<Head(p)>> \o Escaped(Tail(p))

\* pattern.indexOf("*"), counted from 1; 0 when there is none
StarIndex(p) ==
    IF \E i \in 1..Len(p) : p[i] = "*"
    THEN CHOOSE i \in 1..Len(p) : p[i] = "*" /\ \A j \in 1..(i - 1) : p[j] # "*"
    ELSE 0

\* the callback of uriPatterns.map: the LIKE pattern, or the error thrown
LikePattern(pattern) ==
    LET p == Escaped(pattern)
    IN IF StarIndex(p) = 0 THEN [error |-> "none", like |-> p]
       ELSE IF StarIndex(p) # Len(p) THEN [error |-> "InvalidRequest", like |-> <<>>]
       ELSE [error |-> "none", like |-> SubSeq(p, 1, Len(p) - 1) \o <<"%">>]

\* the characters LIKE takes as equal: ASCII letters without regard to case
Lower(c) == IF c = "A" THEN "a" ELSE IF c = "B" THEN "b" ELSE c

RECURSIVE Like(_, _)
\* str LIKE pat of SQLite without an ESCAPE clause: % is any run of characters, _ any
\* one character, every other character itself
Like(pat, str) ==
    IF pat = <<>> THEN str = <<>>
    ELSE IF Head(pat) = "%" THEN Like(Tail(pat), str) \/ (str # <<>> /\ Like(pat, Tail(str)))
    ELSE IF Head(pat) = "_" THEN str # <<>> /\ Like(Tail(pat), Tail(str))
    ELSE str # <<>> /\ Lower(Head(pat)) = Lower(Head(str)) /\ Like(Tail(pat), Tail(str))

\* the WHERE clause as SQL parses it: the LIKE terms are joined by OR without
\* parentheses and AND binds tighter, so "1 = 1" goes with the first term and the
\* src and id terms with the last
Where(row, likes, sources, c) ==
    LET rest == /\ (Len(sources) # 0 => row.src \in Range(sources))
                /\ (c # 0 => row.id > c)
        n == Len(likes)
    IN IF n = 0 THEN rest
       ELSE IF n = 1 THEN Like(likes[1], row.uri) /\ rest
       ELSE \/ \E i \in 1..(n - 1) : Like(likes[i], row.uri)
            \/ (Like(likes[n], row.uri) /\ rest)

\* DefaultDbProvider.searchLabels: the error thrown, or the rows of
\* SELECT * ... ORDER BY id ASC LIMIT ?
searchLabelsResult(q) ==
    LET all == \E i \in 1..Len(q.uriPatterns) : q.uriPatterns[i] = <<"*">>
        mapped == [i \in 1..Len(q.uriPatterns) |-> LikePattern(q.uriPatterns[i])]
    IN IF ~all /\ \E i \in 1..Len(mapped) : mapped[i].error # "none"
       THEN [error |-> "InvalidRequest", rows |-> <<>>]
       ELSE LET likes == IF all THEN <<>> ELSE [i \in 1..Len(mapped) |-> mapped[i].like]
                hit == SelectSeq(labels, LAMBDA r : Where(r, likes, q.sources, q.cursor))
            IN [error |-> "none",
                rows |-> SubSeq(hit, 1, IF Len(hit) < q.limit THEN Len(hit) ELSE q.limit)]

InitSearch ==
    /\ Fresh
    /\ labels \in Tables
    /\ sqlite_sequence = Len(labels)
    /\ arg = NoArg
    /\ res = <<>>

\* a search is run on the table
searchLabels(q) ==
    /\ arg = NoArg
    /\ arg' = q
    /\ res' = <<searchLabelsResult(q)>>
    /\ UNCHANGED <<dbvars, connections, wvars, evars, hvars>>

NextSearch == \E q \in SearchArgs : searchLabels(q)

SpecSearch == InitSearch /\ [][NextSearch]_vars

\* ------------------------------------------------------------------ properties
\* the seq values of the message frames sent to socket h, in the order sent
MsgSeqs(h) ==
    LET m == SelectSeq(frames[h], IsMessage) IN [i \in 1..Len(m) |-> m[i].seq]

\* the ids of the table in insertion order
LogIds == [i \in 1..Len(labels) |-> labels[i].id]

\* emitLabel has run for the record id: no call is still between its insert and its emit
Published(id) == \A w \in Writers : wpc[w] = "await" => wid[w] # id

\* no call is in progress
Quiescent == \A w \in Writers : wpc[w] \notin {"call", "await"}

\* C1: gap-free delivery. A socket that connected with a numeric cursor c, was not
\* rejected, is registered live and is still open has been sent every record with
\* id > c whose publish has run (nothing will send it later).
GapFreeDelivery ==
    \A h \in Handles :
        (hpc[h] = "live" /\ ~closed[h] /\ ~cursor[h].nan) =>
            \A i \in 1..Len(labels) :
                (labels[i].id > cursor[h].n /\ Published(labels[i].id))
                    => labels[i].id \in SeqsOf(h)

\* C2: per-handle ordering. The seq values of the message frames sent to a socket,
\* catch-up frames then live frames, are strictly ascending.
AscendingPerHandle ==
    \A h \in Handles : \A i, j \in 1..Len(MsgSeqs(h)) :
        i < j => MsgSeqs(h)[i] < MsgSeqs(h)[j]

\* C3: id assignment. The ids of the appended records are 1, 2, 3, ... in the order
\* the appends are committed (distinct, each above all earlier ones, no gap), and
\* every id a call got back from the store is the id of its own record and of no
\* other call's.
IdAssignment ==
    /\ \A i \in 1..Len(labels) : labels[i].id = i
    /\ \A w \in Writers : wid[w] # 0 =>
          /\ wid[w] \in DOMAIN owner /\ owner[wid[w]][1] = w
          /\ \E i \in 1..Len(labels) : labels[i].id = wid[w]
    /\ \A w \in Writers : \A i \in 1..Len(createdLabels[w]) :
          /\ createdLabels[w][i].id \in DOMAIN owner
          /\ owner[createdLabels[w][i].id] = <<w, i>>
    /\ \A w, v \in Writers : (w # v /\ wid[w] # 0) => wid[w] # wid[v]

\* two calls have appended interleaved: the batch call has three ids, not consecutive
IdAssignmentWitness ==
    /\ Len(labels) = 4
    /\ Len(createdLabels["w1"]) = 3
    /\ Len(createdLabels["w2"]) = 1
    /\ createdLabels["w2"][1].id = 2

CancelledStaysOut ==
    [][\A h \in Handles :
          closed[h] => (h \notin Range(connections') /\ MsgSeqs(h)' = MsgSeqs(h))]_vars

\* C6: publish isolation. The step in which a call publishes its record (emitLabel)
\* never makes the call fail, and leaves at most one registered socket, the one
\* whose send failed, without the frame.
PublishIsolation ==
    [][\A w \in Writers :
          (wpc[w] = "await" /\ wpc'[w] # "await") =>
              /\ wpc'[w] # "failed"
              /\ Cardinality({h \in Range(connections) : frames'[h] = frames[h]}) <= 1]_vars

\* C7: no duplicate across the replay/live boundary. No two message frames sent to
\* one socket carry the same seq.
NoDuplicateFrames ==
    \A h \in Handles : \A i, j \in 1..Len(MsgSeqs(h)) :
        i # j => MsgSeqs(h)[i] # MsgSeqs(h)[j]

\* C8: live-only subscriber. A socket that connected with cursor 0 or no cursor,
\* whose scan started on an empty log, that is registered live and still open has,
\* once the calls have returned, been sent exactly the appended records, in
\* ascending id order.
LiveOnlySubscriber ==
    \A h \in Handles :
        (/\ hpc[h] = "live" /\ ~closed[h]
         /\ (cursor[h].nan \/ cursor[h].n = 0)
         /\ openMax[h] = 0
         /\ Quiescent)
            => MsgSeqs(h) = LogIds

\* the record the store holds under id
RowById(id) == CHOOSE r \in Range(labels) : r.id = id

\* C9: batch order. A createLabels call that returned has appended exactly one
\* record per value; the returned array lists the create values in order and then
\* the negate values in order, with strictly ascending ids; every record has the
\* subject's uri and cid; the negate records have neg = true and the create records
\* have none; and the store holds each returned record under its id.
BatchOrder ==
    \A w \in Writers : wpc[w] = "done" =>
        LET c == wlabels[w].create
            n == wlabels[w].negate
            out == createdLabels[w]
        IN /\ Len(out) = Len(c) + Len(n)
           /\ \A i \in 1..Len(c) :
                 out[i].val = c[i] /\ ("neg" \notin DOMAIN out[i] \/ out[i].neg = FALSE)
           /\ \A i \in 1..Len(n) :
                 /\ out[Len(c) + i].val = n[i]
                 /\ "neg" \in DOMAIN out[Len(c) + i] /\ out[Len(c) + i].neg = TRUE
           /\ \A i, j \in 1..Len(out) : i < j => out[i].id < out[j].id
           /\ \A i \in 1..Len(out) :
                 /\ out[i].uri = wsubject[w].uri
                 /\ IF "cid" \in DOMAIN out[i] THEN out[i].cid = wsubject[w].cid
                    ELSE wsubject[w].cid = Undefined
           /\ {id \in DOMAIN owner : owner[id][1] = w} = {out[i].id : i \in 1..Len(out)}
           /\ Cardinality({i \in 1..Len(labels) : owner[labels[i].id][1] = w}) = Len(out)
           /\ \A i \in 1..Len(out) :
                 LET r == RowById(out[i].id)
                 IN /\ r.val = out[i].val /\ r.uri = out[i].uri
                    /\ r.neg = (IF i > Len(c) THEN 1 ELSE 0)
                    /\ r.cid = (IF wsubject[w].cid = Undefined THEN Null ELSE wsubject[w].cid)

\* createLabels({uri: "at://x", cid: "c1"}, {create: ["spam"], negate: ["porn"]}) has
\* returned, with the record of a concurrent call between its two records
BatchOrderWitness ==
    /\ wpc["w1"] = "done"
    /\ wsubject["w1"] = RecordSubject
    /\ wlabels["w1"] = [create |-> <<"spam">>, negate |-> <<"porn">>]
    /\ createdLabels["w1"][2].id = createdLabels["w1"][1].id + 2

\* C10: partial batch failure. When the k-th createLabel of a createLabels call has
\* failed, the call has failed as a whole, the k-1 records of the earlier iterations
\* are in the log as appended, and no value listed after the k-th has been appended
\* or published.
PartialBatchFailure ==
    \A w \in Writers : wpc[w] = "failed" =>
        LET k == widx[w]
            vals == wlabels[w].create \o wlabels[w].negate
            out == createdLabels[w]
        IN /\ Len(out) = k - 1
           /\ \A j \in 1..(k - 1) :
                 \E i \in 1..Len(labels) :
                    /\ labels[i].id = out[j].id
                    /\ owner[labels[i].id] = <<w, j>>
                    /\ labels[i].val = vals[j]
                    /\ labels[i].neg = (IF j > Len(wlabels[w].create) THEN 1 ELSE 0)
           /\ \A id \in DOMAIN owner : owner[id][1] = w => owner[id][2] <= k
           /\ \A h \in Handles : \A s \in SeqsOf(h) :
                 owner[s][1] = w => owner[s][2] <= k

\* the second createLabel of a batch of three failed: one record stays, the third
\* value is never appended, and the first was published to a live socket
PartialBatchFailureWitness ==
    /\ wpc["w1"] = "failed"
    /\ widx["w1"] = 2
    /\ Len(wlabels["w1"].create) + Len(wlabels["w1"].negate) = 3
    /\ \E i \in 1..Len(labels) : owner[labels[i].id] = <<"w1", 1>>
    /\ frames["h1"] # <<>>

\* the message frames sent to socket h by path via, in the order sent
FramesVia(h, via) == SelectSeq(frames[h], LAMBDA f : IsMessage(f) /\ f.via = via)

\* C16: publish once per append, after the id exists. Every live frame carries the
\* id of a record that is in the log and whose call has left the wait between insert
\* and emitLabel; no socket has two live frames for one record; and a call whose
\* insert failed has published nothing for the failed value.
PublishAfterAppend ==
    /\ \A h \in Handles : \A i \in 1..Len(FramesVia(h, "live")) :
          LET s == FramesVia(h, "live")[i].seq
          IN /\ \E k \in 1..Len(labels) : labels[k].id = s
             /\ Published(s)
             /\ \A j \in 1..Len(FramesVia(h, "live")) :
                   j # i => FramesVia(h, "live")[j].seq # s
    /\ \A w \in Writers : \A h \in Handles : \A s \in SeqsOf(h) :
          (s \in DOMAIN owner /\ owner[s][1] = w) =>
              (owner[s][2] < widx[w] \/ (owner[s][2] = widx[w] /\ wid[w] = s))

\* a socket has live frames of two records of a batch, and the concurrent call's
\* insert failed and published nothing
PublishAfterAppendWitness ==
    /\ Len(FramesVia("h1", "live")) >= 2
    /\ wpc["w2"] = "failed" /\ wid["w2"] = 0
    /\ wpc["w1"] = "done"

\* C17: catch-up failure. A socket whose catch-up failed has the InternalServerError
\* frame as its last and only error frame, is closed by the server (state "errored"),
\* is not in the registry and has no live frame.
CatchUpFailure ==
    \A h \in Handles : hpc[h] = "errored" =>
        /\ h \notin Range(connections)
        /\ Len(frames[h]) >= 1
        /\ frames[h][Len(frames[h])] = ErrorFrame("InternalServerError")
        /\ \A i \in 1..(Len(frames[h]) - 1) : IsMessage(frames[h][i])
        /\ FramesVia(h, "live") = <<>>

\* a socket failed after sending one catch-up frame, and a record was published to
\* another, live socket
CatchUpFailureWitness ==
    \E h, g \in Handles :
        /\ hpc[h] = "errored" /\ Len(frames[h]) = 2
        /\ hpc[g] = "live" /\ FramesVia(g, "live") # <<>>
        /\ Len(labels) = 2

\* C18: append-only log. Every step leaves each record of the log in place and
\* unchanged; the log only grows at its end.
AppendOnly ==
    [][/\ Len(labels') >= Len(labels)
       /\ \A i \in 1..Len(labels) : labels'[i] = labels[i]]_vars

\* four records are in the log, two of them with the same uri and val
AppendOnlyWitness ==
    /\ Len(labels) = 4
    /\ \E i, j \in 1..Len(labels) :
          i # j /\ labels[i].uri = labels[j].uri /\ labels[i].val = labels[j].val
    /\ frames["h1"] # <<>>

\* the ids the scan of socket h has produced so far: those sent, and the one fetched
Yielded(h) ==
    LET sent == FramesVia(h, "catchup")
        ids == [i \in 1..Len(sent) |-> sent[i].seq]
    IN IF hpc[h] = "scan" /\ fetched[h] # <<>> THEN Append(ids, fetched[h][1].id) ELSE ids

\* the scan of socket h has run to its end
ScanDone(h) == hpc[h] = "live" \/ (hpc[h] = "scan" /\ fetched[h] = <<>>)

\* C19: range scan. The scan of a socket yields only ids above its cursor (nothing
\* without a numeric cursor), in strictly ascending order, and once it has ended it
\* has yielded every record with id > cursor that was in the log when it was opened.
RangeScan ==
    \A h \in Handles :
        /\ \A i \in 1..Len(Yielded(h)) : ~cursor[h].nan /\ Yielded(h)[i] > cursor[h].n
        /\ \A i, j \in 1..Len(Yielded(h)) : i < j => Yielded(h)[i] < Yielded(h)[j]
        /\ (ScanDone(h) /\ ~cursor[h].nan) =>
              \A k \in 1..Len(labels) :
                  (labels[k].id > cursor[h].n /\ labels[k].id <= openMax[h])
                      => \E i \in 1..Len(Yielded(h)) : Yielded(h)[i] = labels[k].id

\* a scan from cursor 1 over a log of two records has ended, having yielded record 2
RangeScanWitness ==
    \E h \in Handles :
        /\ ScanDone(h) /\ cursor[h] = NumCursor(1)
        /\ openMax[h] = 2
        /\ Yielded(h) = <<2>>

\* C20: bounded duplication at the seam. When two message frames sent to one socket
\* carry the same seq, the earlier is a catch-up frame and the later a live frame;
\* so a record is sent at most once by each path and at most twice in all.
BoundedDuplication ==
    \A h \in Handles : \A i, j \in 1..Len(frames[h]) :
        (i < j /\ IsMessage(frames[h][i]) /\ IsMessage(frames[h][j])
               /\ frames[h][i].seq = frames[h][j].seq)
            => (frames[h][i].via = "catchup" /\ frames[h][j].via = "live")

\* a socket was sent a record by its scan and again by live publish
BoundedDuplicationWitness ==
    \E h \in Handles : \E i, j \in 1..Len(frames[h]) :
        /\ i < j /\ IsMessage(frames[h][i]) /\ IsMessage(frames[h][j])
        /\ frames[h][i].seq = frames[h][j].seq

\* call w has appended no record, and no frame carries a record of it
Untouched(w) ==
    /\ \A id \in DOMAIN owner : owner[id][1] # w
    /\ \A h \in Handles : \A id \in SeqsOf(h) : owner[id][1] # w
    /\ createdLabels[w] = <<>>

\* the request carries a bearer token that verifies; its issuer is the caller identity
HasIdentity(req) ==
    /\ "type" \in DOMAIN req.header /\ req.header.type = "Bearer"
    /\ "token" \in DOMAIN req.header /\ req.header.token.ok
CallerIdentity(req) == req.header.token.iss

\* the validation conditions of a moderation event
MissingField(b) == \E k \in {"event", "subject", "createdBy"} : k \notin DOMAIN b
UnsupportedType(b) == "event" \in DOMAIN b /\ b.event.type # ModEventLabel
NoLabelVals(b) ==
    /\ "event" \in DOMAIN b
    /\ \A k \in {"createLabelVals", "negateLabelVals"} :
          k \notin DOMAIN b.event \/ b.event[k] = <<>>
NoUri(b) ==
    /\ "subject" \in DOMAIN b
    /\ ~ \/ (b.subject.type = RepoRef /\ "did" \in DOMAIN b.subject)
         \/ (b.subject.type = StrongRef /\ "uri" \in DOMAIN b.subject)
Violates(b) == MissingField(b) \/ UnsupportedType(b) \/ NoLabelVals(b) \/ NoUri(b)

\* C11 as stated: every moderation event that violates a validation condition fails
\* with InvalidRequest, and no label is appended and nothing is published for it.
EventValidation ==
    \A w \in Writers : (wreq[w] # NoRequest /\ Violates(wreq[w].body)) =>
        (wresp[w] = "InvalidRequest" /\ Untouched(w))

\* C11: event validation leaves the log untouched. Every moderation event that
\* violates a validation condition and comes from a caller who passed the
\* authorization gate fails with InvalidRequest; for a violating event of any caller
\* (the gate's error comes first for the others) no label is appended to the log and
\* nothing is published.
EventValidationAuthorized ==
    \A w \in Writers : (wreq[w] # NoRequest /\ Violates(wreq[w].body)) =>
        /\ Untouched(w) /\ wpc[w] = "rejected"
        /\ (HasIdentity(wreq[w]) /\ CallerIdentity(wreq[w]) = did)
               => wresp[w] = "InvalidRequest"

\* the labeler's own event with a subject of an unknown $type was rejected, while the
\* log has a record that the subscriber was sent
EventValidationWitness ==
    /\ HasIdentity(wreq["w1"]) /\ CallerIdentity(wreq["w1"]) = did
    /\ ~MissingField(wreq["w1"].body) /\ ~UnsupportedType(wreq["w1"].body)
    /\ ~NoLabelVals(wreq["w1"].body) /\ NoUri(wreq["w1"].body)
    /\ wresp["w1"] = "InvalidRequest"
    /\ Len(labels) = 1 /\ FramesVia("h1", "live") # <<>>

\* C12: authorization gate. A moderation event whose caller identity is not the
\* configured issuer DID is rejected with AuthRequired before any label is built: the
\* call has neither subject nor values, has appended nothing, and no frame carries a
\* record of it.
AuthorizationGate ==
    \A w \in Writers :
        (wreq[w] # NoRequest /\ HasIdentity(wreq[w]) /\ CallerIdentity(wreq[w]) # did) =>
            /\ wresp[w] = "AuthRequired" /\ wpc[w] = "rejected"
            /\ wlabels[w] = [create |-> <<>>, negate |-> <<>>]
            /\ wsubject[w] = [uri |-> Undefined, cid |-> Undefined]
            /\ Untouched(w)

\* another DID's event that passes every validation was rejected, while the log has a
\* record that the subscriber was sent
AuthorizationGateWitness ==
    /\ HasIdentity(wreq["w1"]) /\ CallerIdentity(wreq["w1"]) = "did:other"
    /\ ~Violates(wreq["w1"].body)
    /\ wresp["w1"] = "AuthRequired"
    /\ Len(labels) = 1 /\ FramesVia("h1", "live") # <<>>

\* C13: signing is idempotent. The result of signing carries a sig and every field of
\* the argument unchanged; an argument that already carries a sig comes back as it
\* is, its sig not recomputed; and signing the result again gives the same label with
\* the same sig.
SignIdempotent ==
    /\ Len(res) >= 1 =>
          /\ "sig" \in DOMAIN res[1]
          /\ \A k \in DOMAIN arg : res[1][k] = arg[k]
          /\ DOMAIN res[1] = DOMAIN arg \cup {"sig"}
    /\ Len(res) = 2 => (res[2] = res[1] /\ res[2].sig = res[1].sig)

\* a label with a signature made elsewhere went through twice and still carries it
SignIdempotentWitness ==
    /\ Len(res) = 2
    /\ "sig" \in DOMAIN arg /\ arg.sig = ForeignSig
    /\ res[2].sig = ForeignSig

\* the pattern has a wildcard somewhere before its last character
BadWildcard(p) == \E i \in 1..(Len(p) - 1) : p[i] = "*"

\* C14: unsupported wildcard position. A search whose uriPatterns has a pattern with a
\* wildcard in another position than the single trailing one fails with
\* InvalidRequest and returns no records, whatever the other patterns are.
UnsupportedWildcard ==
    (res # <<>> /\ \E i \in 1..Len(arg.uriPatterns) : BadWildcard(arg.uriPatterns[i])) =>
        (res[1].error = "InvalidRequest" /\ res[1].rows = <<>>)

\* the uri is the exact pattern p, or starts with the prefix of the trailing-wildcard
\* pattern p
UriMatches(uri, p) ==
    IF p # <<>> /\ p[Len(p)] = "*"
    THEN Len(uri) >= Len(p) - 1 /\ SubSeq(uri, 1, Len(p) - 1) = SubSeq(p, 1, Len(p) - 1)
    ELSE uri = p

\* the record satisfies the filters of search q
Selected(r, q) ==
    /\ \/ Len(q.uriPatterns) = 0
       \/ \E i \in 1..Len(q.uriPatterns) : q.uriPatterns[i] = <<"*">>
       \/ \E i \in 1..Len(q.uriPatterns) : UriMatches(r.uri, q.uriPatterns[i])
    /\ (Len(q.sources) # 0 => r.src \in Range(q.sources))
    /\ (q.cursor # 0 => r.id > q.cursor)

\* C15: search result. A search without an unsupported pattern returns exactly the
\* first `limit` records, in ascending id order, of the records whose uri equals an
\* exact pattern or starts with the prefix of a trailing-wildcard pattern (any uri
\* when the list is empty or has a literal "*"), whose src is in sources (when
\* non-empty) and whose id is above the cursor (when non-zero).
SearchResult ==
    (res # <<>> /\ \A i \in 1..Len(arg.uriPatterns) : ~BadWildcard(arg.uriPatterns[i])) =>
        LET want == SelectSeq(labels, LAMBDA r : Selected(r, arg))
        IN /\ res[1].error = "none"
           /\ res[1].rows = SubSeq(want, 1, IF Len(want) < arg.limit THEN Len(want) ELSE arg.limit)

\* C21: empty-log cursor check. While the log has no records, a socket that has
\* connected with cursor 0, a negative cursor or no cursor is not rejected: it is
\* sent no frame, goes on to its scan and, unless the scan fails, is registered
\* live; a socket that has connected with a cursor >= 1 is never scanned or
\* registered and is rejected with the FutureCursor frame as its only frame.
EmptyLogCursor ==
    Len(labels) = 0 =>
        \A h \in Handles : hpc[h] # "new" =>
            IF ~cursor[h].nan /\ cursor[h].n >= 1
            THEN /\ hpc[h] \in {"checking", "rejected"}
                 /\ h \notin Range(connections)
                 /\ hpc[h] = "checking" => frames[h] = <<>>
                 /\ hpc[h] = "rejected" => frames[h] = <<ErrorFrame("FutureCursor")>>
            ELSE /\ hpc[h] \in {"checking", "scan", "live", "errored"}
                 /\ \A i \in 1..Len(frames[h]) : frames[h][i] # ErrorFrame("FutureCursor")
                 /\ hpc[h] # "errored" => frames[h] = <<>>
                 /\ hpc[h] = "live" => (h \in Range(connections) \/ closed[h])

\* on the empty log, a socket with cursor 0 is registered live and a socket with
\* cursor 1 was rejected
EmptyLogCursorWitness ==
    \E h, g \in Handles :
        /\ Len(labels) = 0
        /\ cursor[h] = NumCursor(0) /\ hpc[h] = "live" /\ h \in Range(connections)
        /\ cursor[g] = NumCursor(1) /\ hpc[g] = "rejected"

====
